---- MODULE Spec2Model ----
(***************************************************************************)
(* Relief-camp bed allocation server (src/models/camp.js, the file-backed  *)
(* express application of lines 49-534).                                   *)
(*                                                                         *)
(* The three JSON files users.json, camps.json and selections.json are the *)
(* shared state.  Every route handler is an async function: it runs        *)
(* synchronously up to an await, and other requests run while it waits.    *)
(* One action of this module is one such uninterrupted piece of a handler: *)
(* the completion of the file read or write it awaited together with the   *)
(* synchronous code that follows, up to the next await or the response.    *)
(***************************************************************************)
EXTENDS Integers, Sequences, FiniteSets, Bags, TLC

VARIABLES users, camps, selections, reqs, accepted, roundTrip

vars == <<users, camps, selections, reqs, accepted, roundTrip>>

(***************************************************************************)
(* Bounds of the model.                                                    *)
(***************************************************************************)
\* Requests accepted by the server in one behaviour.
MaxRequests == 3
\* Requests that are between their first await and their response at once.
MaxInFlight == 2
\* Number of concurrent SelectCamp calls in the launch scenarios.
NConc == 3


(***************************************************************************)
(* Records of the three collections.                                       *)
(***************************************************************************)
Camp(id, beds, type) ==
    [id |-> id, beds |-> beds, originalBeds |-> beds, type |-> type]

defaultCamps ==
    << Camp(1, 24, "default"), Camp(2, 12, "default"), Camp(3, 30, "default") >>

\* Registered users: one volunteer and the refugees 2 .. NConc + 1.  The
\* users file is kept across restarts (initializeDatabase writes it only
\* when it is missing) and no handler modelled here writes it.
VolunteerId == 1
RefugeeIds == 2..(NConc + 1)

User(i) ==
    [id |-> i, email |-> i, role |-> IF i = VolunteerId THEN "volunteer" ELSE "refugee"]

registeredUsers == [i \in 1..(NConc + 1) |-> User(i)]

\* The claim carried by a bearer token: jwt.sign({id, email, role}).
Token(i) == [id |-> i, email |-> i, role |-> User(i).role]

NoToken == [id |-> 0, email |-> 0, role |-> "none"]

\* Callers of the general specification: the volunteer and two refugees.
Callers == {Token(VolunteerId), Token(VolunteerId + 1), Token(VolunteerId + 2)}

\* Camp ids used in request paths: a default camp and the first id AddCamp
\* hands out (absent until a volunteer adds it).
CampInputs == {1, Len(defaultCamps) + 1}

\* Values of the "beds" field of an AddCamp body (JSON numbers).
BedInputs == {-1, 0, 1}

\* Values of the "name" field of an AddCamp body.
NameInputs == {"", "Camp"}

\* Values of the "email" field of a Register body: missing, the email of a
\* registered refugee, and two emails not yet in use.
EmailInputs == {0, VolunteerId + 1, NConc + 2, NConc + 3}

\* Values of the "role" field of a Register body.
RoleInputs == {"refugee", "admin"}

(***************************************************************************)
(* Array helpers, as the handlers use them.                                *)
(***************************************************************************)
\* camps.findIndex(c => c.id === campId), 1-based, 0 for -1.
CampIndex(cs, id) ==
    IF \E i \in 1..Len(cs) : cs[i].id = id
    THEN CHOOSE i \in 1..Len(cs) :
            /\ cs[i].id = id
            /\ \A j \in 1..(i - 1) : cs[j].id # id
    ELSE 0

\* selections.findIndex(s => s.userId === req.user.id), 1-based, 0 for -1.
SelectionIndex(ss, uid) ==
    IF \E i \in 1..Len(ss) : ss[i].userId = uid
    THEN CHOOSE i \in 1..Len(ss) :
            /\ ss[i].userId = uid
            /\ \A j \in 1..(i - 1) : ss[j].userId # uid
    ELSE 0

\* users.find(u => u.id === req.user.id) is defined.
UserFound(us, uid) == \E i \in 1..Len(us) : us[i].id = uid

\* array.splice(i, 1)
Splice(s, i) == [j \in 1..(Len(s) - 1) |-> IF j < i THEN s[j] ELSE s[j + 1]]

\* WithoutCamp with the cascade left out.
WithoutCampKeepsAll(ss, id) == ss

\* selections.filter(s => s.campId !== campId)
WithoutCamp(ss, id) == SelectSeq(ss, LAMBDA s : s.campId # id)

\* NewCampId without the + 1: the largest id in use is handed out again.
NewCampIdReusesLargest(cs) ==
    IF Len(cs) > 0
    THEN CHOOSE m \in {cs[i].id : i \in 1..Len(cs)} :
             \A i \in 1..Len(cs) : cs[i].id <= m
    ELSE 1

\* Math.max(...camps.map(c => c.id)) + 1, or 1 for an empty array.
NewCampId(cs) ==
    IF Len(cs) > 0
    THEN (CHOOSE m \in {cs[i].id : i \in 1..Len(cs)} :
             \A i \in 1..Len(cs) : cs[i].id <= m) + 1
    ELSE 1

\* JavaScript !beds for a JSON number.
Falsy(n) == n = 0

(***************************************************************************)
(* Requests.                                                               *)
(***************************************************************************)
NoBefore == [camps |-> <<>>, sels |-> <<>>]

\* The fields of a Register body that the handler stores; email 0 stands
\* for a missing field.
NoBody == [email |-> 0, role |-> "none"]

\* One activation of a route handler: the route (op), the await it is at
\* (pc), req.user (tok), the kind of bearer token sent (cred), the parsed
\* inputs, the arrays it read, and its response.  wrote (it has completed a file write), isolated, before and
\* follows are bookkeeping.
Idle ==
    [op |-> "none", pc |-> "idle", tok |-> NoToken, campId |-> 0, beds |-> 0,
     body |-> NoBody, cred |-> "valid",
     lcamps |-> <<>>, lsels |-> <<>>, lusers |-> <<>>, resp |-> "none",
     wrote |-> FALSE, isolated |-> FALSE, before |-> NoBefore, follows |-> FALSE]

InFlight(q) == q.pc # "done"

\* reqs is the bag of activations: those in flight, and those that have
\* responded since the last arrival.
Pending == [q \in {x \in DOMAIN reqs : InFlight(x)} |-> reqs[q]]

\* The server accepts a request whose activation starts as q.
Accepts(q) ==
    /\ accepted < MaxRequests
    /\ BagCardinality(Pending) < MaxInFlight
    /\ accepted' = accepted + 1
    /\ reqs' = Pending (+) SetToBag({q})

\* The handler returns: its locals are gone, the response stays.
Finish(q, resp) ==
    [q EXCEPT !.pc = "done", !.resp = resp, !.lcamps = <<>>, !.lsels = <<>>,
              !.lusers = <<>>, !.beds = 0]

\* Bookkeeping: a request records the collections as they are when it
\* starts (at its first read, or at its arrival when it answers at once).
\* It is isolated for as long as no other request has written since.
Begin(q) ==
    [q EXCEPT !.isolated = TRUE, !.before = [camps |-> camps, sels |-> selections]]

\* Bookkeeping: a write of one request ends the isolation of the others.
Disturbed(q) ==
    IF q.isolated
    THEN [q EXCEPT !.isolated = FALSE, !.before = NoBefore, !.follows = FALSE]
    ELSE q

\* Activation q takes a step and becomes q2.
Step(q, q2) == reqs' = (reqs (-) SetToBag({q})) (+) SetToBag({q2})

\* The same for a step that completes a file write.
WriteStep(q, q2) ==
    reqs' = BagOfAll(Disturbed, reqs (-) SetToBag({q})) (+) SetToBag({q2})

(***************************************************************************)
(* Bookkeeping for the select-then-cancel round trip: the collections a    *)
(* successful, undisturbed SelectCamp started from, then the               *)
(* CancelSelection of the same user that begins after it (follows).  Any   *)
(* write of another request forgets the round trip.                        *)
(***************************************************************************)
NoRoundTrip == [phase |-> "none", user |-> 0, claimed |-> FALSE, before |-> NoBefore]

RoundTripAfterWrite(q) ==
    IF roundTrip.phase = "selected" /\ q.follows THEN roundTrip ELSE NoRoundTrip

Init ==
    /\ users = registeredUsers
    /\ camps = defaultCamps
    /\ selections = <<>>
    /\ reqs = EmptyBag
    /\ accepted = 0
    /\ roundTrip = NoRoundTrip

(***************************************************************************)
(* authenticateToken, the middleware in front of the camp and selection    *)
(* routes.  The arrival actions of the routes below are the arrivals with  *)
(* a valid token, for which it sets req.user and calls next().             *)
(***************************************************************************)
\* An Authorization header: absent, or a bearer token with the claim it
\* carries, signed with JWT_SECRET or not, past its expiry or not.
NoHeader == [kind |-> "none", claim |-> NoToken]

Bearer(kind, claim) == [kind |-> kind, claim |-> claim]

\* Headers that do not carry a valid token.
BadHeaders ==
    {NoHeader} \cup
    {Bearer(k, Token(VolunteerId + 1)) : k \in {"forged", "expired"}}

\* AuthenticateToken that verifies the signature alone and not the expiry.
AuthenticateTokenIgnoresExpiry(h) ==
    IF h.kind = "none" THEN "unauthorized"
    ELSE IF h.kind = "forged" THEN "badtoken"
    ELSE "next"

\* Lines 173-186: 401 without a token, 403 when jwt.verify fails.
AuthenticateToken(h) ==
    IF h.kind = "none" THEN "unauthorized"
    ELSE IF h.kind # "valid" THEN "badtoken"
    ELSE "next"

\* The protected routes, each with the state of its handler at its first
\* await.
FirstAwait ==
    [select |-> "readCamps", cancel |-> "readSelections",
     add |-> "readCamps", delete |-> "readCamps"]

\* A request for a protected route arrives without a valid token.
Unauthenticated ==
    /\ \E h \in BadHeaders, op \in DOMAIN FirstAwait :
          Accepts(IF AuthenticateToken(h) = "next"
                  THEN [Idle EXCEPT !.op = op, !.cred = h.kind, !.tok = h.claim,
                                    !.campId = 1, !.beds = 1, !.pc = FirstAwait[op]]
                  ELSE Finish(Begin([Idle EXCEPT !.op = op, !.cred = h.kind]),
                              AuthenticateToken(h)))
    /\ UNCHANGED <<users, camps, selections, roundTrip>>

(***************************************************************************)
(* POST /api/camps/:id/select                                              *)
(***************************************************************************)
\* SelectChecks with the capacity test off by one (beds < 0).
SelectChecksOffByOne(q) ==
    LET i == CampIndex(q.lcamps, q.campId) IN
    IF i = 0 THEN Finish(q, "notfound")
    ELSE IF SelectionIndex(q.lsels, q.tok.id) # 0 THEN Finish(q, "conflict")
    ELSE IF q.lcamps[i].beds < 0 THEN Finish(q, "full")
    ELSE [q EXCEPT !.lcamps[i].beds = @ - 1, !.pc = "writeCamps"]

\* SelectChecks without the check for an existing selection of the caller.
SelectChecksNoConflict(q) ==
    LET i == CampIndex(q.lcamps, q.campId) IN
    IF i = 0 THEN Finish(q, "notfound")
    ELSE IF q.lcamps[i].beds <= 0 THEN Finish(q, "full")
    ELSE [q EXCEPT !.lcamps[i].beds = @ - 1, !.pc = "writeCamps"]

\* SelectChecks that, instead of answering Conflict, waits for the caller's
\* selection to be cancelled by another request.
SelectChecksWaitsOnConflict(q) ==
    LET i == CampIndex(q.lcamps, q.campId) IN
    IF i = 0 THEN Finish(q, "notfound")
    ELSE IF SelectionIndex(q.lsels, q.tok.id) # 0 THEN q
    ELSE IF q.lcamps[i].beds <= 0 THEN Finish(q, "full")
    ELSE [q EXCEPT !.lcamps[i].beds = @ - 1, !.pc = "writeCamps"]

\* Lines 402-419: the three checks on the arrays read, then camp.beds -= 1.
SelectChecks(q) ==
    LET i == CampIndex(q.lcamps, q.campId) IN
    IF i = 0 THEN Finish(q, "notfound")
    ELSE IF SelectionIndex(q.lsels, q.tok.id) # 0 THEN Finish(q, "conflict")
    ELSE IF q.lcamps[i].beds <= 0 THEN Finish(q, "full")
    ELSE [q EXCEPT !.lcamps[i].beds = @ - 1, !.pc = "writeCamps"]

\* Lines 423-434: the selection record pushed on the array read.
NewSelection(q) ==
    [id |-> Len(q.lsels) + 1, userId |-> q.tok.id, campId |-> q.campId]

\* SelectCamp without the role check.
SelectCampAnyRole ==
    /\ \E tok \in Callers, id \in CampInputs :
          Accepts([Idle EXCEPT !.op = "select", !.tok = tok, !.campId = id,
                               !.pc = "readCamps"])
    /\ UNCHANGED <<users, camps, selections, roundTrip>>

\* The request arrives: the role check, then readCamps() is issued.
SelectCamp ==
    /\ \E tok \in Callers, id \in CampInputs :
          Accepts(IF tok.role # "refugee"
                  THEN Finish(Begin([Idle EXCEPT !.op = "select", !.tok = tok]), "forbidden")
                  ELSE [Idle EXCEPT !.op = "select", !.tok = tok, !.campId = id,
                                    !.pc = "readCamps"])
    /\ UNCHANGED <<users, camps, selections, roundTrip>>

SelectReadCamps(q) ==
    /\ q.op = "select" /\ q.pc = "readCamps"
    /\ Step(q, [Begin(q) EXCEPT !.lcamps = camps, !.pc = "readSelections"])
    /\ UNCHANGED <<users, camps, selections, roundTrip, accepted>>

SelectReadSelections(q) ==
    /\ q.op = "select" /\ q.pc = "readSelections"
    /\ Step(q, [q EXCEPT !.lsels = selections, !.pc = "readUsers"])
    /\ UNCHANGED <<users, camps, selections, roundTrip, accepted>>

\* SelectReadUsers with the decrement written before the capacity check: a
\* request answered "camp is full" has already stored beds - 1.
SelectReadUsersWriteFirst(q) ==
    /\ q.op = "select" /\ q.pc = "readUsers"
    /\ LET w == SelectChecks([q EXCEPT !.lusers = users])
           i == CampIndex(q.lcamps, q.campId)
       IN /\ Step(q, w)
          /\ camps' = IF w.resp = "full"
                       THEN [q.lcamps EXCEPT ![i].beds = @ - 1]
                       ELSE camps
    /\ UNCHANGED <<users, selections, roundTrip, accepted>>

SelectReadUsers(q) ==
    /\ q.op = "select" /\ q.pc = "readUsers"
    /\ Step(q, SelectChecks([q EXCEPT !.lusers = users]))
    /\ UNCHANGED <<users, camps, selections, roundTrip, accepted>>

\* writeCamps(camps) completes; user.name throws when the user is missing.
SelectWriteCamps(q) ==
    /\ q.op = "select" /\ q.pc = "writeCamps"
    /\ camps' = q.lcamps
    /\ LET w == [q EXCEPT !.wrote = TRUE] IN
       WriteStep(q, IF UserFound(w.lusers, w.tok.id)
                    THEN [w EXCEPT !.lsels = Append(@, NewSelection(w)),
                                   !.pc = "writeSelections"]
                    ELSE Finish(w, "internal"))
    /\ roundTrip' = RoundTripAfterWrite(q)
    /\ UNCHANGED <<users, selections, accepted>>

SelectWriteSelections(q) ==
    /\ q.op = "select" /\ q.pc = "writeSelections"
    /\ selections' = q.lsels
    /\ WriteStep(q, Finish(q, "ok"))
    /\ roundTrip' = IF q.isolated
                    THEN [phase |-> "selected", user |-> q.tok.id,
                          claimed |-> FALSE, before |-> q.before]
                    ELSE NoRoundTrip
    /\ UNCHANGED <<users, camps, accepted>>

\* fs.writeFile rejects (the disk is full, say): writeCamps throws and the
\* catch block answers 500.  The file is left as it was.
SelectWriteCampsFails(q) ==
    /\ q.op = "select" /\ q.pc = "writeCamps"
    /\ Step(q, Finish(q, "internal"))
    /\ UNCHANGED <<users, camps, selections, roundTrip, accepted>>

\* The same for writeSelections, after writeCamps has completed.
SelectWriteSelectionsFails(q) ==
    /\ q.op = "select" /\ q.pc = "writeSelections"
    /\ Step(q, Finish(q, "internal"))
    /\ UNCHANGED <<users, camps, selections, roundTrip, accepted>>

(***************************************************************************)
(* DELETE /api/selections/my                                               *)
(***************************************************************************)
\* CancelChecks without camp.beds += 1.
CancelChecksNoIncrement(q) ==
    LET i == SelectionIndex(q.lsels, q.tok.id) IN
    IF i = 0 THEN Finish(q, "notfound")
    ELSE LET c == CampIndex(q.lcamps, q.lsels[i].campId) IN
         IF c # 0
         THEN [q EXCEPT !.pc = "writeCamps"]
         ELSE [q EXCEPT !.lsels = Splice(@, i), !.pc = "writeSelections"]

\* CancelChecks answering NotFound when the selection's camp is gone.
CancelChecksRequiresCamp(q) ==
    LET i == SelectionIndex(q.lsels, q.tok.id) IN
    IF i = 0 THEN Finish(q, "notfound")
    ELSE LET c == CampIndex(q.lcamps, q.lsels[i].campId) IN
         IF c # 0
         THEN [q EXCEPT !.lcamps[c].beds = @ + 1, !.pc = "writeCamps"]
         ELSE Finish(q, "notfound")

\* Lines 453-465: find the caller's selection, give the bed back.
CancelChecks(q) ==
    LET i == SelectionIndex(q.lsels, q.tok.id) IN
    IF i = 0 THEN Finish(q, "notfound")
    ELSE LET c == CampIndex(q.lcamps, q.lsels[i].campId) IN
         IF c # 0
         THEN [q EXCEPT !.lcamps[c].beds = @ + 1, !.pc = "writeCamps"]
         ELSE [q EXCEPT !.lsels = Splice(@, i), !.pc = "writeSelections"]

CancelSelection ==
    /\ \E tok \in Callers :
          Accepts([Idle EXCEPT !.op = "cancel", !.tok = tok, !.pc = "readSelections"])
    /\ UNCHANGED <<users, camps, selections, roundTrip>>

CancelReadSelections(q) ==
    /\ q.op = "cancel" /\ q.pc = "readSelections"
    /\ LET f == /\ roundTrip.phase = "selected"
                /\ ~roundTrip.claimed
                /\ roundTrip.user = q.tok.id
       IN /\ Step(q, [Begin(q) EXCEPT !.lsels = selections, !.pc = "readCamps",
                                      !.follows = f])
          /\ roundTrip' = IF f THEN [roundTrip EXCEPT !.claimed = TRUE] ELSE roundTrip
    /\ UNCHANGED <<users, camps, selections, accepted>>

CancelReadCamps(q) ==
    /\ q.op = "cancel" /\ q.pc = "readCamps"
    /\ Step(q, CancelChecks([q EXCEPT !.lcamps = camps]))
    /\ UNCHANGED <<users, camps, selections, roundTrip, accepted>>

CancelWriteCamps(q) ==
    /\ q.op = "cancel" /\ q.pc = "writeCamps"
    /\ camps' = q.lcamps
    /\ WriteStep(q, [q EXCEPT
                        !.wrote = TRUE,
                        !.lsels = Splice(@, SelectionIndex(@, q.tok.id)),
                        !.pc = "writeSelections"])
    /\ roundTrip' = RoundTripAfterWrite(q)
    /\ UNCHANGED <<users, selections, accepted>>

CancelWriteSelections(q) ==
    /\ q.op = "cancel" /\ q.pc = "writeSelections"
    /\ selections' = q.lsels
    /\ WriteStep(q, Finish([q EXCEPT !.wrote = TRUE], "ok"))
    /\ roundTrip' = IF roundTrip.phase = "selected" /\ q.follows
                    THEN [roundTrip EXCEPT !.phase = "restored"]
                    ELSE NoRoundTrip
    /\ UNCHANGED <<users, camps, accepted>>

(***************************************************************************)
(* POST /api/camps                                                         *)
(***************************************************************************)
\* Lines 325-343: the camp pushed on the array read.
NewCamp(q) ==
    [id |-> NewCampId(q.lcamps), beds |-> q.beds, originalBeds |-> q.beds,
     type |-> "volunteer-added"]

\* The request arrives with req.user = tok and the body {name, beds}: the
\* role check and the validation, then readCamps() is issued.
AddCampWith(tok, name, beds) ==
    /\ Accepts(IF tok.role # "volunteer"
               THEN Finish(Begin([Idle EXCEPT !.op = "add", !.tok = tok]), "forbidden")
               ELSE IF name = "" \/ Falsy(beds)
               THEN Finish(Begin([Idle EXCEPT !.op = "add", !.tok = tok]), "invalid")
               ELSE [Idle EXCEPT !.op = "add", !.tok = tok, !.beds = beds,
                                 !.pc = "readCamps"])
    /\ UNCHANGED <<users, camps, selections, roundTrip>>

AddCamp ==
    \E tok \in Callers, name \in NameInputs, beds \in BedInputs :
        AddCampWith(tok, name, beds)

AddReadCamps(q) ==
    /\ q.op = "add" /\ q.pc = "readCamps"
    /\ Step(q, [Begin(q) EXCEPT !.lcamps = camps, !.pc = "readUsers"])
    /\ UNCHANGED <<users, camps, selections, roundTrip, accepted>>

\* volunteer.name throws when the caller is missing from the users read.
AddReadUsers(q) ==
    /\ q.op = "add" /\ q.pc = "readUsers"
    /\ LET w == [q EXCEPT !.lusers = users] IN
       Step(q, IF UserFound(w.lusers, w.tok.id)
               THEN [w EXCEPT !.lcamps = Append(@, NewCamp(w)), !.pc = "writeCamps"]
               ELSE Finish(w, "internal"))
    /\ UNCHANGED <<users, camps, selections, roundTrip, accepted>>

AddWriteCamps(q) ==
    /\ q.op = "add" /\ q.pc = "writeCamps"
    /\ camps' = q.lcamps
    /\ WriteStep(q, Finish([q EXCEPT !.wrote = TRUE], "ok"))
    /\ roundTrip' = RoundTripAfterWrite(q)
    /\ UNCHANGED <<users, selections, accepted>>

(***************************************************************************)
(* DELETE /api/camps/:id                                                   *)
(***************************************************************************)
\* DeleteChecks without the test for a default camp.
DeleteChecksAnyType(q) ==
    LET i == CampIndex(q.lcamps, q.campId) IN
    IF i = 0 THEN Finish(q, "notfound")
    ELSE [q EXCEPT !.pc = "readSelections"]

\* Lines 365-373: the camp must exist and must not be a default camp.
DeleteChecks(q) ==
    LET i == CampIndex(q.lcamps, q.campId) IN
    IF i = 0 THEN Finish(q, "notfound")
    ELSE IF q.lcamps[i].type = "default" THEN Finish(q, "forbidden")
    ELSE [q EXCEPT !.pc = "readSelections"]

DeleteCamp ==
    /\ \E tok \in Callers, id \in CampInputs :
          Accepts(IF tok.role # "volunteer"
                  THEN Finish(Begin([Idle EXCEPT !.op = "delete", !.tok = tok]), "forbidden")
                  ELSE [Idle EXCEPT !.op = "delete", !.tok = tok, !.campId = id,
                                    !.pc = "readCamps"])
    /\ UNCHANGED <<users, camps, selections, roundTrip>>

DeleteReadCamps(q) ==
    /\ q.op = "delete" /\ q.pc = "readCamps"
    /\ Step(q, DeleteChecks([Begin(q) EXCEPT !.lcamps = camps]))
    /\ UNCHANGED <<users, camps, selections, roundTrip, accepted>>

DeleteReadSelections(q) ==
    /\ q.op = "delete" /\ q.pc = "readSelections"
    /\ Step(q, [q EXCEPT !.lsels = WithoutCamp(selections, q.campId),
                               !.pc = "writeSelections"])
    /\ UNCHANGED <<users, camps, selections, roundTrip, accepted>>

DeleteWriteSelections(q) ==
    /\ q.op = "delete" /\ q.pc = "writeSelections"
    /\ selections' = q.lsels
    /\ WriteStep(q, [q EXCEPT
                        !.wrote = TRUE,
                        !.lcamps = Splice(@, CampIndex(@, q.campId)),
                        !.pc = "writeCamps"])
    /\ roundTrip' = RoundTripAfterWrite(q)
    /\ UNCHANGED <<users, camps, accepted>>

DeleteWriteCamps(q) ==
    /\ q.op = "delete" /\ q.pc = "writeCamps"
    /\ camps' = q.lcamps
    /\ WriteStep(q, Finish(q, "ok"))
    /\ roundTrip' = RoundTripAfterWrite(q)
    /\ UNCHANGED <<users, selections, accepted>>

(***************************************************************************)
(* POST /api/register                                                      *)
(***************************************************************************)
EmailStored(us, email) == \E i \in 1..Len(us) : us[i].email = email

\* Lines 216-225: the user record pushed on the array read.
NewUser(q) ==
    [id |-> Len(q.lusers) + 1, email |-> q.body.email, role |-> q.body.role]

\* RegisterChecks without the test for a stored user with the same email.
RegisterChecksAnyEmail(q) == [q EXCEPT !.pc = "hash"]

\* Lines 208-213: the email must not be stored; bcrypt.hash is issued.
RegisterChecks(q) ==
    IF EmailStored(q.lusers, q.body.email)
    THEN Finish(q, "exists")
    ELSE [q EXCEPT !.pc = "hash"]

\* The request arrives: the validation, then readUsers() is issued.
Register ==
    /\ \E email \in EmailInputs, role \in RoleInputs :
          Accepts(IF email = 0 \/ role \notin {"volunteer", "refugee"}
                  THEN Finish([Idle EXCEPT !.op = "register"], "invalid")
                  ELSE [Idle EXCEPT !.op = "register", !.pc = "readUsers",
                                    !.body = [email |-> email, role |-> role]])
    /\ UNCHANGED <<users, camps, selections, roundTrip>>

RegisterReadUsers(q) ==
    /\ q.op = "register" /\ q.pc = "readUsers"
    /\ Step(q, RegisterChecks([q EXCEPT !.lusers = users]))
    /\ UNCHANGED <<users, camps, selections, roundTrip, accepted>>

\* bcrypt.hash completes: newUser is pushed and writeUsers is issued.
RegisterHash(q) ==
    /\ q.op = "register" /\ q.pc = "hash"
    /\ Step(q, [q EXCEPT !.lusers = Append(@, NewUser(q)), !.pc = "writeUsers"])
    /\ UNCHANGED <<users, camps, selections, roundTrip, accepted>>

\* writeUsers completes: the token of the new user is signed and returned.
RegisterWriteUsers(q) ==
    /\ q.op = "register" /\ q.pc = "writeUsers"
    /\ users' = q.lusers
    /\ LET u == q.lusers[Len(q.lusers)] IN
       WriteStep(q, Finish([q EXCEPT !.wrote = TRUE,
                                     !.tok = [id |-> u.id, email |-> u.email,
                                              role |-> u.role]], "ok"))
    /\ UNCHANGED <<camps, selections, roundTrip, accepted>>

NextRegister ==
    \/ Register
    \/ \E q \in BagToSet(reqs) : RegisterReadUsers(q)
    \/ \E q \in BagToSet(reqs) : RegisterHash(q)
    \/ \E q \in BagToSet(reqs) : RegisterWriteUsers(q)

\* Registrations alone, on the store of Init.
SpecRegister == Init /\ [][NextRegister]_vars

(***************************************************************************)
(* The server: any accepted request takes its next step.                   *)
(***************************************************************************)
Next ==
    \/ SelectCamp
    \/ \E q \in BagToSet(reqs) : SelectReadCamps(q)
    \/ \E q \in BagToSet(reqs) : SelectReadSelections(q)
    \/ \E q \in BagToSet(reqs) : SelectReadUsers(q)
    \/ \E q \in BagToSet(reqs) : SelectWriteCamps(q)
    \/ \E q \in BagToSet(reqs) : SelectWriteSelections(q)
    \/ CancelSelection
    \/ \E q \in BagToSet(reqs) : CancelReadSelections(q)
    \/ \E q \in BagToSet(reqs) : CancelReadCamps(q)
    \/ \E q \in BagToSet(reqs) : CancelWriteCamps(q)
    \/ \E q \in BagToSet(reqs) : CancelWriteSelections(q)
    \/ AddCamp
    \/ \E q \in BagToSet(reqs) : AddReadCamps(q)
    \/ \E q \in BagToSet(reqs) : AddReadUsers(q)
    \/ \E q \in BagToSet(reqs) : AddWriteCamps(q)
    \/ DeleteCamp
    \/ \E q \in BagToSet(reqs) : DeleteReadCamps(q)
    \/ \E q \in BagToSet(reqs) : DeleteReadSelections(q)
    \/ \E q \in BagToSet(reqs) : DeleteWriteSelections(q)
    \/ \E q \in BagToSet(reqs) : DeleteWriteCamps(q)

Spec == Init /\ [][Next]_vars

\* A handler that waits on a file read or write resumes: the read or write
\* completes and the event loop runs the continuation.
Resume ==
    \E q \in BagToSet(reqs) :
        \/ SelectReadCamps(q) \/ SelectReadSelections(q) \/ SelectReadUsers(q)
        \/ SelectWriteCamps(q) \/ SelectWriteSelections(q)
        \/ CancelReadSelections(q) \/ CancelReadCamps(q)
        \/ CancelWriteCamps(q) \/ CancelWriteSelections(q)
        \/ AddReadCamps(q) \/ AddReadUsers(q) \/ AddWriteCamps(q)
        \/ DeleteReadCamps(q) \/ DeleteReadSelections(q)
        \/ DeleteWriteSelections(q) \/ DeleteWriteCamps(q)

\* The server when file reads and writes complete.
SpecLive == Spec /\ WF_vars(Resume)

(***************************************************************************)
(* Launch scenarios: NConc SelectCamp requests have arrived together and   *)
(* passed the role check; their handlers then interleave freely.           *)
(***************************************************************************)
Launched(tok, id) ==
    [Idle EXCEPT !.op = "select", !.tok = tok, !.campId = id, !.pc = "readCamps"]

NextSelect ==
    \/ \E q \in BagToSet(reqs) : SelectReadCamps(q)
    \/ \E q \in BagToSet(reqs) : SelectReadSelections(q)
    \/ \E q \in BagToSet(reqs) : SelectReadUsers(q)
    \/ \E q \in BagToSet(reqs) : SelectWriteCamps(q)
    \/ \E q \in BagToSet(reqs) : SelectWriteSelections(q)

\* The id AddCamp gives the first volunteer-added camp.
AddedCampId == NewCampId(defaultCamps)

\* NConc distinct refugees select one volunteer-added camp that has k beds,
\* 0 < k < NConc.
InitSameCamp ==
    /\ users = registeredUsers
    /\ \E k \in 1..(NConc - 1) :
          camps = Append(defaultCamps, Camp(AddedCampId, k, "volunteer-added"))
    /\ selections = <<>>
    /\ reqs = SetToBag({Launched(Token(u), AddedCampId) : u \in RefugeeIds})
    /\ accepted = NConc
    /\ roundTrip = NoRoundTrip

SpecSameCamp == InitSameCamp /\ [][NextSelect]_vars

\* One refugee sends NConc SelectCamp requests, each for one of the first
\* two default camps.
InitSameUser ==
    /\ users = registeredUsers
    /\ camps = defaultCamps
    /\ selections = <<>>
    /\ \E n \in 0..NConc :
          reqs = [q \in {Launched(Token(VolunteerId + 1), id) :
                            id \in (IF n > 0 THEN {1} ELSE {}) \cup
                                   (IF n < NConc THEN {2} ELSE {})} |->
                    IF q.campId = 1 THEN n ELSE NConc - n]
    /\ accepted = NConc
    /\ roundTrip = NoRoundTrip

SpecSameUser == InitSameUser /\ [][NextSelect]_vars

\* Refugees 2 and 3 each select one of the default camps, two different
\* camps, at once.
InitTwoCamps ==
    /\ users = registeredUsers
    /\ camps = defaultCamps
    /\ selections = <<>>
    /\ \E c1, c2 \in 1..Len(defaultCamps) :
          /\ c1 # c2
          /\ reqs = SetToBag({Launched(Token(VolunteerId + 1), c1),
                              Launched(Token(VolunteerId + 2), c2)})
    /\ accepted = 2
    /\ roundTrip = NoRoundTrip

SpecTwoCamps == InitTwoCamps /\ [][NextSelect]_vars

\* A token whose user is not stored: Register signed it for the user it
\* pushed, and a registration that had read the users earlier then wrote
\* its own array over the file.
StrayToken ==
    [id |-> Len(registeredUsers) + 2, email |-> NConc + 3, role |-> "refugee"]

\* SelectCamp when file writes can fail.
NextSelectFaulty ==
    \/ NextSelect
    \/ \E q \in BagToSet(reqs) : SelectWriteCampsFails(q)
    \/ \E q \in BagToSet(reqs) : SelectWriteSelectionsFails(q)

\* The holder of the stray token and refugee 2 each select one of the
\* first two default camps.
InitSelectFaults ==
    /\ users = registeredUsers
    /\ camps = defaultCamps
    /\ selections = <<>>
    /\ \E c1, c2 \in {1, 2} :
          reqs = SetToBag({Launched(StrayToken, c1),
                           Launched(Token(VolunteerId + 1), c2)})
    /\ accepted = 2
    /\ roundTrip = NoRoundTrip

SpecSelectFaults == InitSelectFaults /\ [][NextSelectFaulty]_vars

(***************************************************************************)
(* Launch scenario for CancelSelection: refugee 2 sends two requests at    *)
(* once and refugee 3, who holds no selection, sends the others.  The last *)
(* refugee holds a selection of camp 2 and sends nothing.  Refugee 2 holds *)
(* no selection, a selection of camp 1, or a selection of a                *)
(* volunteer-added camp that was deleted while the SelectCamp was writing  *)
(* (the selection was stored after DeleteCamp had filtered the array).     *)
(***************************************************************************)
LaunchedCancel(tok) ==
    [Idle EXCEPT !.op = "cancel", !.tok = tok, !.pc = "readSelections"]

NextCancel ==
    \/ \E q \in BagToSet(reqs) : CancelReadSelections(q)
    \/ \E q \in BagToSet(reqs) : CancelReadCamps(q)
    \/ \E q \in BagToSet(reqs) : CancelWriteCamps(q)
    \/ \E q \in BagToSet(reqs) : CancelWriteSelections(q)

Bystander == NConc + 1

Selection(n, u, c) == [id |-> n, userId |-> u, campId |-> c]

\* The store in which refugee 2 holds a selection of camp c (none when
\* c = 0), with the cancels launched.
InitCancelHolding(c) ==
    /\ users = registeredUsers
    /\ camps = [i \in 1..Len(defaultCamps) |->
                  [defaultCamps[i] EXCEPT
                      !.beds = @ - (IF i = 2 THEN 1 ELSE 0) - (IF i = c THEN 1 ELSE 0)]]
    /\ selections =
          <<Selection(1, Bystander, 2)>> \o
          (IF c = 0 THEN <<>> ELSE <<Selection(2, VolunteerId + 1, c)>>)
    /\ reqs = [q \in {LaunchedCancel(Token(VolunteerId + 1)),
                      LaunchedCancel(Token(VolunteerId + 2))} |->
                 IF q.tok.id = VolunteerId + 1 THEN 2 ELSE NConc - 2]
    /\ accepted = NConc
    /\ roundTrip = NoRoundTrip

InitCancel == \E c \in {0, 1, AddedCampId} : InitCancelHolding(c)

SpecCancel == InitCancel /\ [][NextCancel]_vars

\* Refugee 2 holds a selection of a stored camp.
InitTwoCancels == \E c \in {1, Len(defaultCamps)} : InitCancelHolding(c)

SpecTwoCancels == InitTwoCancels /\ [][NextCancel]_vars

(***************************************************************************)
(* The token gate: requests without a valid token arrive at the four       *)
(* protected routes while SelectCamp and CancelSelection requests with     *)
(* valid tokens arrive and run.                                            *)
(***************************************************************************)
NextGate ==
    \/ Unauthenticated
    \/ SelectCamp
    \/ CancelSelection
    \/ NextSelect
    \/ NextCancel

SpecGate == Init /\ [][NextGate]_vars

(***************************************************************************)
(* Vocabulary of the properties.                                           *)
(***************************************************************************)
\* Number of stored selections that reference camp id.
SelectionsOf(id) == Len(SelectSeq(selections, LAMBDA s : s.campId = id))

\* No handler is between its arrival and its response.
Quiescent == \A q \in BagToSet(reqs) : ~InFlight(q)

\* Number of activations in the bag that satisfy P.
Count(P(_)) == BagCardinality([q \in {x \in DOMAIN reqs : P(x)} |-> reqs[q]])

Responded(q, op, resp) == q.pc = "done" /\ q.op = op /\ q.resp = resp

(***************************************************************************)
(* Strictly sequential SelectCamp and CancelSelection requests: a request  *)
(* arrives only when no handler is in flight.  The store is the one after  *)
(* refugee 2 has selected camp 1.                                          *)
(***************************************************************************)
InitOneSelection ==
    /\ users = registeredUsers
    /\ camps = [defaultCamps EXCEPT ![1].beds = @ - 1]
    /\ selections = <<Selection(1, VolunteerId + 1, 1)>>
    /\ reqs = EmptyBag
    /\ accepted = 0
    /\ roundTrip = NoRoundTrip

NextSequential ==
    \/ Quiescent /\ SelectCamp
    \/ Quiescent /\ CancelSelection
    \/ NextSelect
    \/ NextCancel

SpecSequential == InitOneSelection /\ [][NextSequential]_vars

(***************************************************************************)
(* C1.  Whenever no request is in flight, every stored camp has            *)
(* beds = originalBeds - (number of stored selections for that camp).      *)
(* Violated: overlapping SelectCamp requests write back stale arrays.      *)
(***************************************************************************)
C1_BedsMatchSelections ==
    Quiescent =>
        \A i \in 1..Len(camps) :
            camps[i].beds = camps[i].originalBeds - SelectionsOf(camps[i].id)

(***************************************************************************)
(* C2.  In every reachable state every stored camp has                     *)
(* 0 <= beds <= originalBeds.                                              *)
(***************************************************************************)
C2_BedsWithinCapacity ==
    \A i \in 1..Len(camps) :
        0 <= camps[i].beds /\ camps[i].beds <= camps[i].originalBeds

\* The part of C2 about select and cancel alone: a camp created with a
\* valid capacity keeps 0 <= beds <= originalBeds.
C2_AllocationWithinCapacity ==
    \A i \in 1..Len(camps) :
        camps[i].originalBeds >= 0 =>
            0 <= camps[i].beds /\ camps[i].beds <= camps[i].originalBeds

(***************************************************************************)
(* C3.  In every reachable state the selections collection holds at most   *)
(* one selection per userId.                                               *)
(***************************************************************************)
C3_OneSelectionPerUser ==
    \A i, j \in 1..Len(selections) :
        selections[i].userId = selections[j].userId => i = j

\* Two SelectCamp requests of one refugee have both answered success, and
\* a selection of that refugee is stored.
C3_Witness ==
    \E u \in RefugeeIds :
        /\ Count(LAMBDA q : Responded(q, "select", "ok") /\ q.tok.id = u) >= 2
        /\ SelectionIndex(selections, u) # 0

(***************************************************************************)
(* C4.  NConc refugees select one camp that has k < NConc beds: when all   *)
(* have answered, exactly k succeeded, the other NConc - k got "camp is    *)
(* full", and the camp has 0 beds.                                         *)
(***************************************************************************)
C4_ExactlyKSucceed ==
    Quiescent =>
        LET c == camps[CampIndex(camps, AddedCampId)] IN
        /\ Count(LAMBDA q : Responded(q, "select", "ok")) = c.originalBeds
        /\ Count(LAMBDA q : Responded(q, "select", "full")) = NConc - c.originalBeds
        /\ c.beds = 0

(***************************************************************************)
(* C5.  One refugee sends NConc SelectCamp requests at once: when all have *)
(* answered, exactly one succeeded, the others got "already have a camp    *)
(* selected", one selection of that refugee is stored and one bed in total *)
(* is consumed.                                                            *)
(***************************************************************************)
C5_ExactlyOneSucceeds ==
    Quiescent =>
        /\ Count(LAMBDA q : Responded(q, "select", "ok")) = 1
        /\ Count(LAMBDA q : Responded(q, "select", "conflict")) = NConc - 1
        /\ Len(selections) = 1
        /\ (camps[1].originalBeds - camps[1].beds)
             + (camps[2].originalBeds - camps[2].beds) = 1

(***************************************************************************)
(* C6.  A successful SelectCamp followed by a successful CancelSelection   *)
(* of the same user, with no write of any other request from the select's  *)
(* first read to the cancel's response, leaves the camps collection (the   *)
(* camp's bed count included) and the selections collection exactly as     *)
(* they were before the select.                                            *)
(***************************************************************************)
C6_RoundTripRestores ==
    roundTrip.phase = "restored" =>
        /\ camps = roundTrip.before.camps
        /\ selections = roundTrip.before.sels
        /\ SelectionIndex(selections, roundTrip.user) = 0

\* A round trip has completed while a selection of another user is stored.
C6_Witness ==
    /\ roundTrip.phase = "restored"
    /\ Len(selections) >= 1

(***************************************************************************)
(* C7.  A SelectCamp of a registered refugee who has no selection, for a   *)
(* camp that exists, running undisturbed: it succeeds and stores beds - 1  *)
(* when the camp has beds > 0, and answers "camp is full" when beds <= 0.  *)
(***************************************************************************)
C7_SucceedsIffBedsAvailable ==
    \A q \in BagToSet(reqs) :
        (q.pc = "done" /\ q.op = "select" /\ q.isolated /\ q.tok.role = "refugee") =>
            LET i == CampIndex(q.before.camps, q.campId) IN
            ( /\ i # 0
              /\ SelectionIndex(q.before.sels, q.tok.id) = 0
              /\ UserFound(users, q.tok.id) ) =>
                IF q.before.camps[i].beds > 0
                THEN /\ q.resp = "ok"
                     /\ CampIndex(camps, q.campId) # 0
                     /\ camps[CampIndex(camps, q.campId)].beds
                            = q.before.camps[i].beds - 1
                ELSE q.resp = "full"

\* A camp of one bed: the selection of one refugee is stored, the camp has
\* 0 beds, and the later SelectCamp of another refugee is answered "full".
C7_Witness ==
    \E q \in BagToSet(reqs) :
        /\ Responded(q, "select", "full") /\ q.isolated
        /\ LET i == CampIndex(camps, q.campId) IN
           /\ i # 0
           /\ camps[i].originalBeds = 1 /\ camps[i].beds = 0
           /\ \E k \in 1..Len(selections) :
                 selections[k].campId = q.campId /\ selections[k].userId # q.tok.id

(***************************************************************************)
(* C8.  A SelectCamp answered NotFound, Forbidden, Conflict or "camp is    *)
(* full" has written nothing, and unless another request wrote meanwhile   *)
(* camps and selections are exactly as they were before the request.       *)
(***************************************************************************)
SelectErrors == {"notfound", "forbidden", "conflict", "full"}

C8_ErrorsChangeNothing ==
    \A q \in BagToSet(reqs) :
        (q.pc = "done" /\ q.op = "select" /\ q.resp \in SelectErrors) =>
            /\ ~q.wrote
            /\ q.isolated =>
                  camps = q.before.camps /\ selections = q.before.sels

\* An undisturbed SelectCamp was answered "camp is full".
C8_Witness ==
    \E q \in BagToSet(reqs) : Responded(q, "select", "full") /\ q.isolated

(***************************************************************************)
(* C9.  After an undisturbed DeleteCamp has answered success, the camp and *)
(* every selection that referenced it are absent, and all other camps and  *)
(* selections are as they were before the request.                         *)
(***************************************************************************)
C9_DeleteCascades ==
    \A q \in BagToSet(reqs) :
        (Responded(q, "delete", "ok") /\ q.isolated) =>
            /\ camps = SelectSeq(q.before.camps, LAMBDA c : c.id # q.campId)
            /\ selections = SelectSeq(q.before.sels, LAMBDA s : s.campId # q.campId)
            /\ Len(camps) = Len(q.before.camps) - 1

\* An undisturbed DeleteCamp has removed a camp that had a selection.
C9_Witness ==
    \E q \in BagToSet(reqs) :
        /\ Responded(q, "delete", "ok") /\ q.isolated
        /\ \E k \in 1..Len(q.before.sels) : q.before.sels[k].campId = q.campId

(***************************************************************************)
(* C10.  A DeleteCamp answered Forbidden has written nothing and, unless   *)
(* another request wrote meanwhile, changed nothing; and every seeded      *)
(* default camp is in the camps collection in every reachable state.       *)
(***************************************************************************)
C10_DefaultCampsStay ==
    /\ \A q \in BagToSet(reqs) :
          Responded(q, "delete", "forbidden") =>
              /\ ~q.wrote
              /\ q.isolated =>
                    camps = q.before.camps /\ selections = q.before.sels
    /\ \A d \in 1..Len(defaultCamps) :
          \E i \in 1..Len(camps) :
              /\ camps[i].id = defaultCamps[d].id
              /\ camps[i].type = "default"
              /\ camps[i].originalBeds = defaultCamps[d].originalBeds

\* A volunteer's DeleteCamp of a default camp was answered Forbidden.
C10_Witness ==
    \E q \in BagToSet(reqs) :
        /\ Responded(q, "delete", "forbidden")
        /\ q.tok.role = "volunteer"
        /\ q.campId = defaultCamps[1].id

(***************************************************************************)
(* C11.  A CancelSelection of a user who has no stored selection answers   *)
(* NotFound, has written nothing and (unless another request wrote         *)
(* meanwhile) changed nothing.  A CancelSelection of a user whose          *)
(* selection references a camp that is no longer stored, running           *)
(* undisturbed, answers success, removes exactly that selection and leaves *)
(* the camps collection, every bed count included, as it was.              *)
(***************************************************************************)
C11_CancelWithoutCamp ==
    \A q \in BagToSet(reqs) :
        (q.pc = "done" /\ q.op = "cancel") =>
            /\ q.resp = "notfound" =>
                  /\ ~q.wrote
                  /\ q.isolated =>
                        camps = q.before.camps /\ selections = q.before.sels
            /\ q.isolated =>
                  LET i == SelectionIndex(q.before.sels, q.tok.id) IN
                  /\ i = 0 => q.resp = "notfound"
                  /\ (i # 0 /\ CampIndex(q.before.camps, q.before.sels[i].campId) = 0) =>
                        /\ q.resp = "ok"
                        /\ selections = Splice(q.before.sels, i)
                        /\ camps = q.before.camps

\* A cancel of a selection whose camp is gone has answered success, and a
\* cancel of a user without a selection has answered NotFound after it.
C11_Witness ==
    /\ \E q \in BagToSet(reqs) :
          /\ Responded(q, "cancel", "ok") /\ q.isolated
          /\ LET i == SelectionIndex(q.before.sels, q.tok.id) IN
             i # 0 /\ CampIndex(q.before.camps, q.before.sels[i].campId) = 0
    /\ \E q \in BagToSet(reqs) :
          /\ Responded(q, "cancel", "notfound") /\ q.isolated
          /\ q.tok.id = VolunteerId + 2

(***************************************************************************)
(* C12.  The write that completes a successful AddCamp with bed count b,   *)
(* when no other request wrote since the handler read the camps, appends   *)
(* exactly one camp: beds = originalBeds = b, type "volunteer-added", an   *)
(* id that no stored camp has; the camps stored before and the selections  *)
(* stay as they are.                                                       *)
(***************************************************************************)
C12_AddAppendsOneCamp ==
    [][\A q \in BagToSet(reqs) :
          (AddWriteCamps(q) /\ q.isolated) =>
              /\ Len(camps') = Len(camps) + 1
              /\ SubSeq(camps', 1, Len(camps)) = camps
              /\ LET c == camps'[Len(camps')] IN
                 /\ c.beds = q.beds /\ c.originalBeds = q.beds
                 /\ c.type = "volunteer-added"
                 /\ \A i \in 1..Len(camps) : camps[i].id # c.id
              /\ selections' = selections
              /\ \E w \in BagToSet(reqs') : Responded(w, "add", "ok")]_vars

\* An undisturbed AddCamp has answered success while a selection is stored.
C12_Witness ==
    /\ \E q \in BagToSet(reqs) :
          /\ Responded(q, "add", "ok") /\ q.isolated
          /\ Len(camps) = Len(q.before.camps) + 1
          /\ camps[Len(camps)].type = "volunteer-added"
    /\ Len(selections) >= 1

(***************************************************************************)
(* C13.  An AddCamp of a volunteer with a non-empty name is accepted when  *)
(* the bed count is 0 or more and answered InvalidInput when it is         *)
(* negative.                                                               *)
(* Violated: the handler rejects 0 and accepts -1.                         *)
(***************************************************************************)
C13_AcceptsNonNegativeBeds ==
    [][\A b \in BedInputs :
          AddCampWith(Token(VolunteerId), "Camp", b) =>
              ((b >= 0) <=> ~\E q \in BagToSet(reqs') : Responded(q, "add", "invalid"))]_vars

(***************************************************************************)
(* C14.  In every reachable state no two stored users share an email, a    *)
(* Register answered "already exists" has written nothing, and a Register  *)
(* that finds its email in the users it reads is answered "already exists" *)
(* in that step, which leaves the users collection as it is.               *)
(***************************************************************************)
C14_EmailsUnique ==
    /\ [](\A i, j \in 1..Len(users) : users[i].email = users[j].email => i = j)
    /\ [](\A q \in BagToSet(reqs) : Responded(q, "register", "exists") => ~q.wrote)
    /\ [][\A q \in BagToSet(reqs) :
             (RegisterReadUsers(q) /\ EmailStored(users, q.body.email)) =>
                 /\ users' = users
                 /\ \E w \in BagToSet(reqs') : Responded(w, "register", "exists")]_vars

\* Two registrations with one email have both answered success, and one
\* user with that email is stored.
C14_Witness ==
    \E e \in EmailInputs :
        /\ Count(LAMBDA q : Responded(q, "register", "ok") /\ q.body.email = e) >= 2
        /\ EmailStored(users, e)

(***************************************************************************)
(* C15.  A SelectCamp whose token role is not "refugee", and an AddCamp or *)
(* DeleteCamp whose token role is not "volunteer", is answered Forbidden   *)
(* on arrival: it is never waiting on a read or a write, has written       *)
(* nothing, and (unless another request wrote since) camps and selections  *)
(* are as they were when it arrived.                                       *)
(***************************************************************************)
\* q passed authenticateToken with a role its route does not allow.
WrongRole(q) ==
    /\ q.cred = "valid"
    /\ \/ q.op = "select" /\ q.tok.role # "refugee"
       \/ q.op \in {"add", "delete"} /\ q.tok.role # "volunteer"

C15_RoleEnforced ==
    \A q \in BagToSet(reqs) :
        WrongRole(q) =>
            /\ q.pc = "done" /\ q.resp = "forbidden"
            /\ ~q.wrote
            /\ q.isolated =>
                  camps = q.before.camps /\ selections = q.before.sels

\* A refugee's AddCamp or DeleteCamp was answered Forbidden while a
\* volunteer-added camp is stored.
C15_Witness ==
    /\ \E q \in BagToSet(reqs) :
          /\ q.op \in {"add", "delete"} /\ q.tok.role = "refugee"
          /\ q.resp = "forbidden" /\ q.isolated
    /\ Len(camps) > Len(defaultCamps)

(***************************************************************************)
(* C16.  A request for a camp or selection route that carries no token is  *)
(* answered 401, and one that carries a forged or expired token is         *)
(* answered 403; in both cases the handler does not run (req.user is not   *)
(* set, nothing is read or written) and, unless another request wrote      *)
(* since, users, camps and selections are as they were on arrival.         *)
(***************************************************************************)
C16_TokenGate ==
    /\ users = registeredUsers
    /\ \A q \in BagToSet(reqs) :
          q.cred # "valid" =>
              /\ q.pc = "done" /\ q.tok = NoToken /\ ~q.wrote
              /\ q.resp = IF q.cred = "none" THEN "unauthorized" ELSE "badtoken"
              /\ q.isolated =>
                    camps = q.before.camps /\ selections = q.before.sels

\* A request with an expired token was answered 403 while the handler of
\* another request is waiting on a write.
C16_Witness ==
    /\ \E q \in BagToSet(reqs) :
          q.cred = "expired" /\ q.resp = "badtoken" /\ q.isolated
    /\ \E q \in BagToSet(reqs) : q.pc = "writeSelections"

(***************************************************************************)
(* C17.  When file reads and writes complete, every accepted request is    *)
(* answered: whenever a handler is in flight, a state follows in which     *)
(* none is.  A request has a response exactly when its handler has         *)
(* returned.                                                               *)
(***************************************************************************)
C17_EveryRequestCompletes ==
    /\ [](\A q \in BagToSet(reqs) : (q.pc = "done") <=> (q.resp # "none"))
    /\ (~Quiescent) ~> Quiescent

\* Two requests that both wrote have been answered and nothing is in
\* flight, every request the server takes having arrived.
C17_Witness ==
    /\ Quiescent
    /\ accepted = MaxRequests
    /\ Count(LAMBDA q : q.pc = "done" /\ q.wrote) >= 2

(***************************************************************************)
(* C18.  Two refugees select two different camps that have beds, at once:  *)
(* when both have answered, both succeeded, each of the two camps has one  *)
(* bed less than its capacity and both selections are stored.              *)
(* Violated: the later writeCamps puts back the bed count the other        *)
(* request had decremented, and the later writeSelections drops the other  *)
(* selection.                                                              *)
(***************************************************************************)
C18_BothSelectionsKept ==
    Quiescent =>
        /\ Count(LAMBDA q : Responded(q, "select", "ok")) = 2
        /\ \A q \in BagToSet(reqs) :
              /\ camps[CampIndex(camps, q.campId)].beds
                     = camps[CampIndex(camps, q.campId)].originalBeds - 1
              /\ \E k \in 1..Len(selections) :
                    /\ selections[k].userId = q.tok.id
                    /\ selections[k].campId = q.campId

(***************************************************************************)
(* C19.  A user who holds one selection sends two CancelSelection requests *)
(* at once: when all requests have answered, exactly one succeeded, every  *)
(* other got NotFound, and the camp has its bed back exactly once (so no   *)
(* camp has more beds than its capacity).                                  *)
(* Violated: both requests find the selection and both add a bed.          *)
(***************************************************************************)
C19_OneCancelSucceeds ==
    Quiescent =>
        /\ Count(LAMBDA q : Responded(q, "cancel", "ok")) = 1
        /\ Count(LAMBDA q : Responded(q, "cancel", "notfound")) = NConc - 1
        /\ \A i \in 1..Len(camps) :
              camps[i].beds = camps[i].originalBeds - SelectionsOf(camps[i].id)

(***************************************************************************)
(* C20.  A SelectCamp answered Internal (500) has persisted nothing: it    *)
(* has not completed the write of the decremented bed count.               *)
(* Violated: the decrement is written before the user is looked up and     *)
(* before the selection is written, and is not undone when either fails.   *)
(***************************************************************************)
C20_AllOrNothing ==
    \A q \in BagToSet(reqs) : Responded(q, "select", "internal") => ~q.wrote

(***************************************************************************)
(* C21.  Whenever no request is in flight, every stored selection          *)
(* references a stored camp.                                               *)
(* Violated: a SelectCamp that overlaps the DeleteCamp of its camp writes  *)
(* its selection after the cascade has filtered the selections.            *)
(***************************************************************************)
C21_SelectionsReferenceCamps ==
    Quiescent =>
        \A k \in 1..Len(selections) : CampIndex(camps, selections[k].campId) # 0

(***************************************************************************)
(* C22.  In every reachable state no two stored selections have the same   *)
(* id.                                                                     *)
(* Violated, with one request at a time: the id is the length of the array *)
(* plus one, which a cancellation makes available again while a later      *)
(* selection still holds it.                                               *)
(***************************************************************************)
C22_SelectionIdsUnique ==
    \A i, j \in 1..Len(selections) :
        selections[i].id = selections[j].id => i = j

(***************************************************************************)
(* C23.  Once a DeleteCamp has answered success for a camp, a step that    *)
(* puts a camp with that id back into the camps collection is the write of *)
(* an AddCamp that read the camps after the deletion and appends a new     *)
(* camp with that id.                                                      *)
(* Violated: a SelectCamp, CancelSelection or AddCamp that read the camps  *)
(* before the deletion writes its array, the deleted camp included.        *)
(***************************************************************************)
C23_DeletionIsDurable ==
    [][\A d \in BagToSet(reqs) :
          ( /\ Responded(d, "delete", "ok")
            /\ CampIndex(camps, d.campId) = 0
            /\ CampIndex(camps', d.campId) # 0 ) =>
              \E q \in BagToSet(reqs) :
                  /\ AddWriteCamps(q)
                  /\ CampIndex(q.lcamps, d.campId) = Len(q.lcamps)]_vars

====
